---- MODULE Spec2Model ----
\* A model of cuelist's playback Runner (src/src/cuelist/runner.py): the
\* Runner's fields, the control methods play / pause / resume / swap / stop,
\* and the background playback loop (_loop) as the steps between its reads and
\* writes of the shared fields.  Control methods are called by one external
\* thread (caller 0) and, re-entrantly, by a loop thread from inside output_fn.
\*
\* Granularity: a control method runs as one step up to the join it blocks in,
\* and as one more step from the join's return to its end; the loop's header
\* (stop test, clip re-read, clock read, clamp, self._elapsed = show_time) is
\* one step.  The interleavings of single Python statements inside those
\* steps are not explored.
EXTENDS Integers, Sequences, FiniteSets, TLC

\* ---------------------------------------------------------------- bounds
\* Control methods called from inside output_fn over a run.
MaxReentrant == 1
\* Thread objects in use at once: a loop outlives its successor's start only
\* when a control method was called from inside it.
MaxThreads == MaxReentrant + 1
\* time.monotonic() runs up to MaxTime.
MaxTime == 2
\* pause() calls over a run of the completion check.
MaxCycles == 2

\* ------------------------------------------------------------ the inputs
\* Frame period 1.0 / fps, in clock units.
FrameDur == 2

Threads == 1..MaxThreads
\* The external control thread.
Ext == 0
Callers == {Ext} \cup Threads
\* Runner._thread is None.
NoThread == 0

\* The clips handed to play() and swap(): a finite clip (StubClip) and an
\* unbounded one (InfiniteClip, duration None).
Clips == {"fin", "inf"}
\* Runner._clip is None.
NoClip == "none"
\* The finite clip's duration: 0, or a positive one shorter than a frame period.
Durations == {0, FrameDur - 1}
\* clip.duration is not None
Finite(c) == c = "fin"
\* The start_at arguments of play().
StartAts == {0}

VARIABLES
    clip_duration,\* StubClip.clip_duration of the finite clip, fixed over a run
    thread,       \* Runner._thread: NoThread or a thread id
    stop_event,   \* Runner._stop_event is set
    done_event,   \* Runner._done_event is set
    paused,       \* Runner._paused
    clip,         \* Runner._clip
    elapsed,      \* Runner._elapsed
    now,          \* the last value time.monotonic() returned
    pc,           \* per thread: where its _loop is
    start_time,   \* per thread: _loop's start_time argument
    frame_count,  \* per thread: _loop's frame_count
    lclip,        \* per thread: _loop's local clip
    show_time,    \* per thread: _loop's show_time, <<>> before the first tick
    call,         \* per caller: the control method it is inside
    reentered,    \* control methods called from inside output_fn so far
    afterPause,   \* the external thread's last pause(): "pending" while it is
                  \* inside, "yes" once it has returned, "no" as soon as
                  \* play() or resume() is called
    afterStop,    \* the same for the external thread's last stop()
    origin,       \* per thread: <<start_at>> of a loop that resume() started,
                  \* <<>> for a loop that play() started
    cycles,       \* pause() calls so far (counted in the completion check only)
    selfstop,     \* the running loop thread that last called pause() or
                  \* stop() from inside its own frame, NoThread if none
    time_offset,         \* Runner._time_offset, the applied offset
    target_time_offset,  \* Runner._target_time_offset
    nudged,       \* the sum of the nudge() arguments since the last play()
    compose_fn,   \* BaseTimeline.compose_fn and BPMTimeline.compose_fn
    events,       \* Timeline.events: a sequence of <<position, clip>>
    bevents,      \* BPMTimeline.events
    added,        \* the events in the order they were added
    outcome,      \* of the last call on the timelines, when it was a
                  \* remove: "removed" or "ValueError"; "" otherwise
    query,        \* <<t>> of the last render(t), <<>> before it
    changes,      \* TempoMap._changes: a sequence of <<beat, bpm>>
    conv,         \* <<x>> of the last beat/time conversion, <<>> before it
    scaled,       \* the ScaledClip: its inner clip and constructor arguments
    sresult,      \* the last ScaledClip.render(t): t, the value returned and
                  \* the calls of inner.render it made; <<>> before it
    doc,          \* the arguments of deserialize_timeline: data and load_fn
    loaded,       \* <<what deserialize_timeline(data, registry, load_fn)
                  \* returned or raised>>, <<>> before the call
    kids,         \* the active children of one Timeline render call, in
                  \* order: "sync" or "async" renders
    kst,          \* per child: "new", "created" (render() called, coroutine
                  \* not started), "running", "done"
    rpc,          \* where the render call is
    got           \* the indices of the children whose results are in the
                  \* results list, in its order

\* clip.duration of a finite clip
Dur(c) == clip_duration

shared == <<clip_duration, thread, stop_event, done_event, paused, clip, elapsed>>
locals == <<pc, start_time, frame_count, lclip, show_time>>
ghost  == <<reentered, afterPause, afterStop, origin>>
vars   == <<clip_duration, thread, stop_event, done_event, paused, clip, elapsed, now,
            pc, start_time, frame_count, lclip, show_time, call,
            reentered, afterPause, afterStop, origin, cycles, selfstop,
            time_offset, target_time_offset, nudged,
            compose_fn, events, bevents, added, outcome, query, changes, conv,
            scaled, sresult, doc, loaded, kids, kst, rpc, got>>

nudge_vars == <<time_offset, target_time_offset, nudged>>

\* The timelines and the tempo map, which a Runner leaves alone.
apart == <<compose_fn, events, bevents, added, outcome, query, changes, conv,
           scaled, sresult, doc, loaded, kids, kst, rpc, got>>

\* The timelines and the tempo map on their own.
timed == <<compose_fn, events, bevents, added, outcome, query, changes, conv>>

\* The ScaledClip, the deserializer and the asynchronous render call.
scaled_vars == <<scaled, sresult>>

serde_vars == <<doc, loaded>>

async_vars == <<kids, kst, rpc, got>>

\* What a Runner without nudge() leaves alone.
beside == <<nudge_vars, apart>>

\* Binary digits after the point in the numbers of the timelines and the
\* tempo map: a number x stands for x / Scale.
FracBits == 4

Scale == 2 ^ FracBits

\* TempoMap() with the default bpm and no timeline content.
Untimed ==
    /\ compose_fn = "last"
    /\ events = <<>>
    /\ bevents = <<>>
    /\ added = <<>>
    /\ outcome = ""
    /\ query = <<>>
    /\ changes = << <<0, 120 * Scale>> >>
    /\ conv = <<>>

\* No ScaledClip in use: a pass-through wrapper of the unbounded leaf clip.
Unscaled ==
    /\ scaled = [inner |-> "n", fade_in |-> 0, fade_out |-> 0, amount |-> Scale,
                 scale_fn |-> FALSE, duration_override |-> <<>>]
    /\ sresult = <<>>

\* Nothing to deserialize.
Unloaded ==
    /\ doc = [data |-> [compose_fn |-> "", events |-> <<>>], load_fn |-> FALSE]
    /\ loaded = <<>>

\* No render call with asynchronous children.
Unasked == kids = <<>> /\ kst = <<>> /\ rpc = "idle" /\ got = <<>>

\* No nudge() yet.
Unnudged == time_offset = 0 /\ target_time_offset = 0 /\ nudged = 0

Idle == [op |-> "none", arg |-> NoClip, start |-> 0, jt |-> NoThread]

\* Thread.is_alive()
is_alive(t) == t # NoThread /\ pc[t] # "dead"

\* Runner.state
state ==
    IF paused THEN "paused"
    ELSE IF thread # NoThread /\ is_alive(thread) THEN "playing"
    ELSE "stopped"

\* A Runner as constructed, with no thread started yet.
Fresh ==
    /\ thread = NoThread
    /\ stop_event = FALSE
    /\ done_event = TRUE
    /\ paused = FALSE
    /\ clip = NoClip
    /\ elapsed = 0
    /\ pc = [t \in Threads |-> "dead"]
    /\ start_time = [t \in Threads |-> 0]
    /\ frame_count = [t \in Threads |-> 0]
    /\ lclip = [t \in Threads |-> NoClip]
    /\ show_time = [t \in Threads |-> <<>>]
    /\ call = [c \in Callers |-> Idle]
    /\ reentered = 0
    /\ afterPause = "no"
    /\ afterStop = "no"
    /\ origin = [t \in Threads |-> <<>>]

Init ==
    /\ clip_duration \in Durations
    /\ Fresh
    /\ now = 0
    /\ cycles = 0
    /\ selfstop = NoThread
    /\ Unnudged
    /\ Untimed
    /\ Unscaled
    /\ Unloaded
    /\ Unasked

\* ------------------------------------------------------------- the clock
\* time.monotonic() returns n: any value from the last one read onwards.
monotonic(n) == n \in now..MaxTime /\ now' = n

\* ------------------------------------------------------ the playback loop
\* A thread object no one refers to any more can stand for a new Thread().
FreeTids ==
    {t \in Threads :
        pc[t] = "dead" /\ \A c \in Callers : call[c].jt # t}

NewTid == CHOOSE t \in FreeTids : \A u \in FreeTids : t <= u

\* The thread's locals once it has ended.
Ended(t) ==
    /\ pc' = [pc EXCEPT ![t] = "dead"]
    /\ start_time' = [start_time EXCEPT ![t] = 0]
    /\ frame_count' = [frame_count EXCEPT ![t] = 0]
    /\ lclip' = [lclip EXCEPT ![t] = NoClip]
    /\ show_time' = [show_time EXCEPT ![t] = <<>>]
    /\ origin' = [origin EXCEPT ![t] = <<>>]

\* A completion test that a clamped show_time never passes.
Finishing_past(t) == Finite(lclip[t]) /\ show_time[t][1] > Dur(lclip[t])

\* A loop that does not clamp show_time.
Clamp_none(c, st) == st

\* show_time, clamped to the clip's duration.
Clamp(c, st) == IF Finite(c) /\ st > Dur(c) THEN Dur(c) ELSE st

\* The loop's first statements: frame_count = 0, clip = self._clip.
loop_start(t) ==
    /\ pc[t] = "start"
    /\ pc' = [pc EXCEPT ![t] = "while"]
    /\ frame_count' = [frame_count EXCEPT ![t] = 0]
    /\ lclip' = [lclip EXCEPT ![t] = clip]
    /\ UNCHANGED <<shared, now, start_time, show_time, call, ghost>>

\* A loop that keeps the clip it started with.
loop_tick_snapshot(t) ==
    /\ pc[t] = "while"
    /\ IF stop_event
         THEN /\ pc' = [pc EXCEPT ![t] = "finally"]
              /\ UNCHANGED <<show_time, elapsed, now>>
         ELSE \E n \in now..MaxTime :
                /\ monotonic(n)
                /\ pc' = [pc EXCEPT ![t] = "render"]
                /\ show_time' = [show_time EXCEPT
                                   ![t] = <<Clamp(lclip[t], n - start_time[t])>>]
                /\ elapsed' = Clamp(lclip[t], n - start_time[t])
    /\ UNCHANGED <<clip_duration, thread, stop_event, done_event, paused, clip,
                   start_time, frame_count, lclip, call, ghost>>

\* One pass of the while header up to self._elapsed = show_time.
loop_tick(t) ==
    /\ pc[t] = "while"
    /\ IF stop_event
         THEN /\ pc' = [pc EXCEPT ![t] = "finally"]
              /\ UNCHANGED <<lclip, show_time, elapsed, now>>
         ELSE IF clip = NoClip
           THEN /\ pc' = [pc EXCEPT ![t] = "finally"]
                /\ lclip' = [lclip EXCEPT ![t] = NoClip]
                /\ UNCHANGED <<show_time, elapsed, now>>
           ELSE \E n \in now..MaxTime :
                /\ monotonic(n)
                /\ pc' = [pc EXCEPT ![t] = "render"]
                /\ lclip' = [lclip EXCEPT ![t] = clip]
                /\ show_time' = [show_time EXCEPT
                                   ![t] = <<Clamp(clip, n - start_time[t])>>]
                /\ elapsed' = Clamp(clip, n - start_time[t])
    /\ UNCHANGED <<clip_duration, thread, stop_event, done_event, paused, clip,
                   start_time, frame_count, call, ghost>>

\* The completion test after the frame.
Finishing(t) == Finite(lclip[t]) /\ show_time[t][1] >= Dur(lclip[t])

AfterPc(t) == IF Finishing(t) THEN "finally" ELSE "wait"

AfterFc(t) == IF Finishing(t) THEN frame_count[t] ELSE frame_count[t] + 1

\* After the frame (its try block left normally or through except): the
\* completion test, else frame_count += 1 and on to the wait.
AfterFrame(t) ==
    /\ pc' = [pc EXCEPT ![t] = AfterPc(t)]
    /\ frame_count' = [frame_count EXCEPT ![t] = AfterFc(t)]

\* The frame: clip.render, apply_fn and output_fn, which receives the output.
loop_render(t) ==
    /\ pc[t] = "render"
    /\ pc' = [pc EXCEPT ![t] = "outfn"]
    /\ UNCHANGED <<shared, now, start_time, frame_count, lclip, show_time,
                   call, ghost>>

\* clip.render, apply_fn or output_fn raises before output_fn has the frame:
\* nothing is delivered.
loop_raise(t) ==
    /\ pc[t] = "render"
    /\ pc' = [pc EXCEPT ![t] = "except"]
    /\ UNCHANGED <<shared, now, start_time, frame_count, lclip, show_time,
                   call, ghost>>

\* A loop that an exception ends.
loop_except_ends(t) ==
    /\ pc[t] = "except"
    /\ pc' = [pc EXCEPT ![t] = "finally"]
    /\ UNCHANGED <<shared, now, start_time, frame_count, lclip, show_time,
                   call, ghost>>

\* except Exception: log.exception(...), and on after the frame.
loop_except(t) ==
    /\ pc[t] = "except"
    /\ AfterFrame(t)
    /\ UNCHANGED <<shared, now, start_time, lclip, show_time, call, ghost>>

\* output_fn returns (or raises with the frame in hand: the loop goes on the
\* same way).
loop_outfn(t) ==
    /\ pc[t] = "outfn"
    /\ call[t] = Idle
    /\ AfterFrame(t)
    /\ UNCHANGED <<shared, now, start_time, lclip, show_time, call, ghost>>

\* self._stop_event.wait(timeout=delay)
loop_wait(t) ==
    /\ pc[t] = "wait"
    /\ IF stop_event
         THEN pc' = [pc EXCEPT ![t] = "finally"] /\ UNCHANGED now
         ELSE \E n \in now..MaxTime :
                /\ monotonic(n)
                /\ n >= start_time[t] + frame_count[t] * FrameDur
                /\ pc' = [pc EXCEPT ![t] = "while"]
    /\ UNCHANGED <<shared, start_time, frame_count, lclip, show_time,
                   call, ghost>>

\* The finally block's test.
clip_finished(t) ==
    lclip[t] # NoClip /\ Finite(lclip[t]) /\ elapsed >= Dur(lclip[t])

loop_finally(t) ==
    /\ pc[t] = "finally"
    /\ IF ~paused \/ clip_finished(t)
         THEN /\ pc' = [pc EXCEPT ![t] = "finset"]
              /\ UNCHANGED <<start_time, frame_count, lclip, show_time, origin>>
         ELSE Ended(t)
    /\ UNCHANGED <<shared, now, call, reentered, afterPause, afterStop>>

\* The finally block's body, and the thread ends.
loop_finset(t) ==
    /\ pc[t] = "finset"
    /\ paused' = FALSE
    /\ done_event' = TRUE
    /\ Ended(t)
    /\ UNCHANGED <<clip_duration, thread, stop_event, clip, elapsed, now,
                   call, reentered, afterPause, afterStop>>

Loop(t) ==
    \/ loop_start(t)
    \/ loop_tick(t)
    \/ loop_render(t)
    \/ loop_raise(t)
    \/ loop_except(t)
    \/ loop_outfn(t)
    \/ loop_wait(t)
    \/ loop_finally(t)
    \/ loop_finset(t)

\* ----------------------------------------------------- the control methods
\* A control method runs on the external thread, or on a loop thread that is
\* inside output_fn (threading.current_thread() is then that loop).  Its
\* statements run as one step up to the point where it blocks, the join.
CanCall(c) ==
    /\ call[c] = Idle
    /\ c \in Threads => pc[c] = "outfn" /\ reentered < MaxReentrant

\* The call is counted when a loop thread makes it.
Enter(c) == reentered' = IF c \in Threads THEN reentered + 1 ELSE reentered

\* self._thread.join() has to wait: the thread is another one, and running.
MustJoin(c) == thread # NoThread /\ thread # c /\ pc[thread] # "dead"

\* The caller blocks in the join of self._thread.
Block(c, op, k, s) ==
    call' = [call EXCEPT ![c] = [op |-> op, arg |-> k, start |-> s, jt |-> thread]]

\* The method returns: a loop thread goes on after its frame.
RetPc(c) == IF c \in Threads THEN [pc EXCEPT ![c] = AfterPc(c)] ELSE pc

RetFc(c) == IF c \in Threads THEN [frame_count EXCEPT ![c] = AfterFc(c)] ELSE frame_count

Return(c) ==
    /\ pc' = RetPc(c)
    /\ frame_count' = RetFc(c)
    /\ UNCHANGED <<start_time, lclip, show_time>>

\* A _start_loop that starts every loop at position 0.
start_loop_from_zero(c, start_at) ==
    /\ FreeTids # {}
    /\ stop_event' = FALSE
    /\ thread' = NewTid
    /\ pc' = [RetPc(c) EXCEPT ![NewTid] = "start"]
    /\ frame_count' = [RetFc(c) EXCEPT ![NewTid] = 0]
    /\ \E n \in now..MaxTime :
          monotonic(n) /\ start_time' = [start_time EXCEPT ![NewTid] = n]
    /\ lclip' = [lclip EXCEPT ![NewTid] = NoClip]
    /\ show_time' = [show_time EXCEPT ![NewTid] = <<>>]

\* _start_loop(start_at), then the method returns.
start_loop(c, start_at) ==
    /\ FreeTids # {}
    /\ stop_event' = FALSE
    /\ thread' = NewTid
    /\ pc' = [RetPc(c) EXCEPT ![NewTid] = "start"]
    /\ frame_count' = [RetFc(c) EXCEPT ![NewTid] = 0]
    /\ \E n \in now..MaxTime :
          monotonic(n) /\ start_time' = [start_time EXCEPT ![NewTid] = n - start_at]
    /\ lclip' = [lclip EXCEPT ![NewTid] = NoClip]
    /\ show_time' = [show_time EXCEPT ![NewTid] = <<>>]

\* The external thread is inside pause() or stop(), blocked in the join.
Pending(c, op) ==
    /\ afterPause' = IF c = Ext /\ op = "pause" THEN "pending" ELSE afterPause
    /\ afterStop' = IF c = Ext /\ op = "stop" THEN "pending" ELSE afterStop

\* The external thread's pause() or stop() returns: at once (it never
\* blocked), or from the join with no play() or resume() called meanwhile.
Settle(v) == IF v = "pending" THEN "yes" ELSE v

Quiet(c, op) ==
    /\ afterPause' = IF c = Ext /\ op = "pause"
                       THEN IF call[c] = Idle THEN "yes" ELSE Settle(afterPause)
                       ELSE afterPause
    /\ afterStop' = IF c = Ext /\ op = "stop"
                      THEN IF call[c] = Idle THEN "yes" ELSE Settle(afterStop)
                      ELSE afterStop

\* play(), resume(): the quiet after an external pause() or stop() is over.
Restart == afterPause' = "no" /\ afterStop' = "no"

\* play(): the statements after stop(): the four assignments, _start_loop.
play_rest(c, k, s) ==
    /\ clip' = k
    /\ paused' = FALSE
    /\ elapsed' = s
    /\ done_event' = FALSE
    /\ start_loop(c, s)
    /\ origin' = [origin EXCEPT ![NewTid] = <<>>]

\* stop()
stop(c) ==
    /\ CanCall(c)
    /\ Enter(c)
    /\ stop_event' = TRUE
    /\ paused' = FALSE
    /\ done_event' = IF paused THEN TRUE ELSE done_event
    /\ IF MustJoin(c)
         THEN /\ Block(c, "stop", NoClip, 0)
              /\ Pending(c, "stop")
              /\ UNCHANGED <<thread, locals>>
         ELSE /\ thread' = NoThread
              /\ Return(c)
              /\ Quiet(c, "stop")
              /\ UNCHANGED call
    /\ UNCHANGED <<clip_duration, clip, elapsed, now, origin>>

\* play(clip, start_at)
play(c, k, s) ==
    /\ CanCall(c)
    /\ Enter(c)
    /\ Restart
    /\ IF MustJoin(c)
         THEN /\ stop_event' = TRUE
              /\ paused' = FALSE
              /\ done_event' = IF paused THEN TRUE ELSE done_event
              /\ Block(c, "play", k, s)
              /\ UNCHANGED <<thread, clip, elapsed, locals, now, origin>>
         ELSE /\ play_rest(c, k, s)
              /\ UNCHANGED call
    /\ UNCHANGED clip_duration

\* pause()
pause(c) ==
    /\ CanCall(c)
    /\ Enter(c)
    /\ IF thread = NoThread \/ paused
         THEN /\ Return(c)
              /\ Quiet(c, "pause")
              /\ UNCHANGED <<thread, stop_event, paused, call>>
         ELSE /\ paused' = TRUE
              /\ stop_event' = TRUE
              /\ IF MustJoin(c)
                   THEN /\ Block(c, "pause", NoClip, 0)
                        /\ Pending(c, "pause")
                        /\ UNCHANGED <<thread, locals>>
                   ELSE /\ thread' = NoThread
                        /\ Return(c)
                        /\ Quiet(c, "pause")
                        /\ UNCHANGED call
    /\ UNCHANGED <<clip_duration, done_event, clip, elapsed, now, origin>>

\* self._thread.join() returns, self._thread = None, and the method goes on
\* to its end.
join(c) ==
    /\ call[c] # Idle
    /\ pc[call[c].jt] = "dead"
    /\ call' = [call EXCEPT ![c] = Idle]
    /\ IF call[c].op = "play"
         THEN /\ play_rest(c, call[c].arg, call[c].start)
              /\ UNCHANGED <<afterPause, afterStop>>
         ELSE /\ thread' = NoThread
              /\ Return(c)
              /\ Quiet(c, call[c].op)
              /\ UNCHANGED <<stop_event, done_event, paused, clip, elapsed, now,
                             origin>>
    /\ UNCHANGED <<clip_duration, reentered>>

\* resume()
resume(c) ==
    /\ CanCall(c)
    /\ Enter(c)
    /\ Restart
    /\ IF ~paused \/ clip = NoClip
         THEN /\ Return(c)
              /\ UNCHANGED <<thread, stop_event, paused, now, origin>>
         ELSE /\ paused' = FALSE
              /\ start_loop(c, elapsed)
              /\ origin' = [origin EXCEPT ![NewTid] = <<elapsed>>]
    /\ UNCHANGED <<clip_duration, done_event, clip, elapsed, call>>

\* swap(clip)
swap(c, k) ==
    /\ CanCall(c)
    /\ Enter(c)
    /\ clip' = k
    /\ Return(c)
    /\ UNCHANGED <<clip_duration, thread, stop_event, done_event, paused,
                   elapsed, now, call, afterPause, afterStop, origin>>

Control(c) ==
    \/ stop(c)
    \/ \E k \in Clips, s \in StartAts : play(c, k, s)
    \/ pause(c)
    \/ join(c)
    \/ resume(c)
    \/ \E k \in Clips : swap(c, k)

\* The loop thread noted as having stopped itself, forgotten once it has ended.
Kept == IF selfstop # NoThread /\ pc[selfstop] = "dead" THEN NoThread ELSE selfstop

\* The step is a pause() or a stop() that a loop thread makes from inside its
\* own frame.
Note(c) ==
    selfstop' = IF c \in Threads /\ call[c] = Idle /\ (stop(c) \/ pause(c))
                  THEN c ELSE Kept

Next ==
    \/ (\E t \in Threads : Loop(t)) /\ UNCHANGED <<cycles, selfstop, beside>>
    \/ (\E c \in Callers : Control(c) /\ Note(c)) /\ UNCHANGED <<cycles, beside>>

Spec == Init /\ [][Next]_vars

\* ------------------------------------------- one playback run to completion
\* The external thread plays the finite clip once, from start_at 0 or from a
\* negative start_at, then pauses and resumes up to MaxCycles times and never
\* calls stop().  Time passes only while a loop waits for its next frame, and
\* the wait ends at the frame time it waits for.  time.monotonic() has an
\* arbitrary origin: the clock starts early enough for MaxCycles + 1 loops to
\* each wait out a frame period after starting one unit before position 0.
LiveStartAts == {-1, 0}

\* next_target of the wait loop t is in
next_target(t) == start_time[t] + frame_count[t] * FrameDur

OnTime ==
    \/ now' = now
    \/ \E t \in Threads :
          /\ pc[t] = "wait" /\ pc'[t] = "while"
          /\ now' = next_target(t)

LiveEpoch == MaxTime - (MaxCycles + 1) * (FrameDur + 1)

LiveInit ==
    /\ clip_duration \in Durations
    /\ Fresh
    /\ now = LiveEpoch
    /\ cycles = 0
    /\ selfstop = NoThread
    /\ Unnudged
    /\ Untimed
    /\ Unscaled
    /\ Unloaded
    /\ Unasked

LiveLoop(t) == Loop(t) /\ OnTime /\ UNCHANGED <<cycles, selfstop, beside>>

LivePlay ==
    /\ clip = NoClip
    /\ \E s \in LiveStartAts : play(Ext, "fin", s)
    /\ OnTime
    /\ UNCHANGED <<cycles, selfstop, beside>>

LivePause ==
    /\ clip # NoClip
    /\ cycles < MaxCycles
    /\ pause(Ext)
    /\ cycles' = cycles + 1
    /\ UNCHANGED <<selfstop, beside>>

LiveJoin == join(Ext) /\ UNCHANGED <<cycles, selfstop, beside>>

\* Every pause() is followed by a resume().
LiveResume ==
    /\ paused
    /\ resume(Ext)
    /\ OnTime
    /\ UNCHANGED <<cycles, selfstop, beside>>

LiveNext ==
    \/ \E t \in Threads : LiveLoop(t)
    \/ LivePlay
    \/ LivePause
    \/ LiveJoin
    \/ LiveResume

\* Every started thread keeps running, a join returns once its thread has
\* ended, and the external thread goes on to its play() and its resume().
LiveSpec ==
    /\ LiveInit
    /\ [][LiveNext]_vars
    /\ \A t \in Threads : WF_vars(LiveLoop(t))
    /\ WF_vars(LivePlay)
    /\ WF_vars(LiveJoin)
    /\ WF_vars(LiveResume)

\* ------------------------------------------------------ a Runner with nudge()
\* nudge(), the two offsets and their use by the loop, after the
\* specification's description of them.  The external thread plays, stops
\* and nudges; the loop applies the offset on every tick.
Nudges == {-2, 2}

\* The target offset stays within -MaxOffset..MaxOffset.
MaxOffset == 4

\* nudge(delta): the target offset takes delta.
nudge_overwrite(d) ==
    /\ d \in -MaxOffset..MaxOffset
    /\ target_time_offset' = d
    /\ nudged' = nudged + d
    /\ UNCHANGED <<shared, now, locals, call, ghost, cycles, selfstop,
                   time_offset, apart>>

\* nudge(delta): the target offset accumulates delta.
nudge(d) ==
    /\ target_time_offset + d \in -MaxOffset..MaxOffset
    /\ target_time_offset' = target_time_offset + d
    /\ nudged' = nudged + d
    /\ UNCHANGED <<shared, now, locals, call, ghost, cycles, selfstop,
                   time_offset, apart>>

Between(a, b) == {x \in -MaxOffset..MaxOffset : (a < x /\ x < b) \/ (b < x /\ x < a)}

\* An applied offset that jumps to the target.
Approach_jump(o, g) == {g}

\* The applied offset one frame later: closer to the target but not on it,
\* until it is within one unit of it.
Approach(o, g) == IF Between(o, g) = {} THEN {g} ELSE Between(o, g)

\* A show time that is not clamped at 0.
AtLeast0_none(x) == x

\* max(0.0, x)
AtLeast0(x) == IF x < 0 THEN 0 ELSE x

\* The while header of a loop that applies the offset.
nudge_tick(t) ==
    /\ pc[t] = "while"
    /\ IF stop_event
         THEN /\ pc' = [pc EXCEPT ![t] = "finally"]
              /\ UNCHANGED <<lclip, show_time, elapsed, now, time_offset>>
         ELSE IF clip = NoClip
           THEN /\ pc' = [pc EXCEPT ![t] = "finally"]
                /\ lclip' = [lclip EXCEPT ![t] = NoClip]
                /\ UNCHANGED <<show_time, elapsed, now, time_offset>>
           ELSE \E n \in now..MaxTime, o \in Approach(time_offset, target_time_offset) :
                /\ monotonic(n)
                /\ time_offset' = o
                /\ pc' = [pc EXCEPT ![t] = "render"]
                /\ lclip' = [lclip EXCEPT ![t] = clip]
                /\ show_time' = [show_time EXCEPT
                      ![t] = <<Clamp(clip, AtLeast0(n - start_time[t] + o))>>]
                /\ elapsed' = Clamp(clip, AtLeast0(n - start_time[t] + o))
    /\ UNCHANGED <<clip_duration, thread, stop_event, done_event, paused, clip,
                   start_time, frame_count, call, ghost, cycles, selfstop,
                   target_time_offset, nudged, apart>>

NudgeLoop(t) ==
    \/ nudge_tick(t)
    \/ /\ \/ loop_start(t)
          \/ loop_render(t)
          \/ loop_raise(t)
          \/ loop_except(t)
          \/ loop_outfn(t)
          \/ loop_wait(t)
          \/ loop_finally(t)
          \/ loop_finset(t)
       /\ UNCHANGED <<cycles, selfstop, nudge_vars, apart>>

\* A play() that keeps the offsets.
Reset_none == UNCHANGED nudge_vars

\* play() resets both offsets.
Reset == time_offset' = 0 /\ target_time_offset' = 0 /\ nudged' = 0

\* The step runs play()'s statements after stop().
PlaysOn == call[Ext].op = "play" \/ (call[Ext] = Idle /\ ~MustJoin(Ext))

NudgePlay ==
    /\ \E k \in Clips, s \in StartAts : play(Ext, k, s)
    /\ IF PlaysOn THEN Reset ELSE UNCHANGED nudge_vars
    /\ UNCHANGED <<cycles, selfstop, apart>>

NudgeJoin ==
    /\ join(Ext)
    /\ IF PlaysOn THEN Reset ELSE UNCHANGED nudge_vars
    /\ UNCHANGED <<cycles, selfstop, apart>>

NudgeStop ==
    /\ stop(Ext)
    /\ UNCHANGED <<cycles, selfstop, nudge_vars, apart>>

NudgeNext ==
    \/ \E t \in Threads : NudgeLoop(t)
    \/ \E d \in Nudges : nudge(d)
    \/ NudgePlay
    \/ NudgeJoin
    \/ NudgeStop

NudgeSpec == Init /\ [][NudgeNext]_vars

\* ---------------------------------------------- numbers of the tempo map
\* A float operation gives the exact result rounded to the nearest number
\* the format holds; a binary fixed-point format with FracBits digits stands
\* for the doubles.
RoundDiv(n, d) ==
    IF n >= 0 THEN (2 * n + d) \div (2 * d) ELSE -((2 * (-n) + d) \div (2 * d))

\* a * b
FMul(a, b) == RoundDiv(a * b, Scale)

\* a / b
FDiv(a, b) == RoundDiv(a * Scale, b)

\* 60.0
Sixty == 60 * Scale

\* 1.0
One == Scale

\* 0.5
Half == Scale \div 2

\* ------------------------------------------------------------- TempoMap
RECURSIVE sorted(_)

Less(e, f) == e[1] < f[1] \/ (e[1] = f[1] /\ e[2] < f[2])

\* list.sort() of (beat, bpm) tuples, as an insertion sort
insert_sorted(s, e) ==
    LET k == Cardinality({i \in 1..Len(s) : ~Less(e, s[i])})
    IN  SubSeq(s, 1, k) \o <<e>> \o SubSeq(s, k + 1, Len(s))

sorted(s) == IF s = <<>> THEN <<>> ELSE insert_sorted(sorted(Tail(s)), Head(s))

\* [(b, t) for b, t in self._changes if b != beat]
Without(s, beat) == SelectSeq(s, LAMBDA e : e[1] # beat)

\* A set_tempo that keeps an entry already at the beat.
set_tempo_keeping(ch, beat, bpm) ==
    IF beat <= 0
      THEN [ch EXCEPT ![1] = <<0, bpm>>]
      ELSE sorted(Append(ch, <<beat, bpm>>))

\* TempoMap.set_tempo(beat, bpm): the new _changes
set_tempo(ch, beat, bpm) ==
    IF beat <= 0
      THEN [ch EXCEPT ![1] = <<0, bpm>>]
      ELSE sorted(Append(Without(ch, beat), <<beat, bpm>>))

RECURSIVE time_loop(_, _, _, _, _, _)

\* The for loop of TempoMap.time from entry i on, and the remainder after it.
time_loop(ch, beats, i, total_seconds, prev_beat, prev_bpm) ==
    IF i > Len(ch) \/ beats <= ch[i][1]
      THEN total_seconds + FMul(beats - prev_beat, FDiv(Sixty, prev_bpm))
      ELSE time_loop(ch, beats, i + 1,
                     total_seconds + FMul(ch[i][1] - prev_beat, FDiv(Sixty, prev_bpm)),
                     ch[i][1], ch[i][2])

\* A time() that clamps beats before 0 to 0.
time_clamped(ch, beats) ==
    IF beats < 0 THEN 0 ELSE time_loop(ch, beats, 2, 0, 0, ch[1][2])

\* TempoMap.time(beats) on the breakpoints ch
time_of(ch, beats) == time_loop(ch, beats, 2, 0, 0, ch[1][2])

\* TempoMap.time(beats)
time(beats) == time_of(changes, beats)

RECURSIVE beat_loop(_, _, _, _, _, _, _)

\* The for loop of TempoMap.beat from entry i on, and the remainder after it.
beat_loop(ch, seconds, i, total_beats, prev_beat, prev_bpm, elapsed_seconds) ==
    LET rest == total_beats + FMul(seconds - elapsed_seconds, FDiv(prev_bpm, Sixty))
    IN  IF i > Len(ch)
          THEN rest
          ELSE LET segment_seconds ==
                      FMul(ch[i][1] - prev_beat, FDiv(Sixty, prev_bpm))
               IN  IF elapsed_seconds + segment_seconds >= seconds
                     THEN rest
                     ELSE beat_loop(ch, seconds, i + 1, ch[i][1], ch[i][1],
                                    ch[i][2], elapsed_seconds + segment_seconds)

\* TempoMap.beat(seconds) on the breakpoints ch
beat_of(ch, seconds) == beat_loop(ch, seconds, 2, 0, 0, ch[1][2], 0)

\* TempoMap.beat(seconds)
beat(seconds) == beat_of(changes, seconds)

\* ------------------------------------------------ Timeline and BPMTimeline
\* The clips: two finite leaf clips (of duration 0.5 and 2), a leaf clip of
\* duration None, and a nested Timeline that holds the latter.
TClips == {"a", "b", "n", "nest"}

InnerEvents == << <<0, "n">> >>

Positions == {-One, 0, One}

\* Events on a timeline at once.
MaxEvents == 3

\* The render times: every half unit from -1.5 to 3.5.
Times == {k * Half : k \in -3..7}

\* <<d>>, or <<>> for None
LeafDuration(c) ==
    CASE c = "a" -> <<Half>>
      [] c = "b" -> <<2 * One>>
      [] OTHER -> <<>>

Targets(c) ==
    CASE c = "a" -> {"x"}
      [] c = "b" -> {"x", "y"}
      [] OTHER -> {"y"}

\* A leaf clip's render(t): its delta names the clip and its local time.
LeafRender(c, t) == [tg \in Targets(c) |-> <<c, t>>]

RECURSIVE duration(_)

RECURSIVE render(_, _)

RECURSIVE bisect(_, _, _, _)

\* bisect.bisect_right(a, x, key=lambda e: e[0]) between lo and hi
bisect(a, x, lo, hi) ==
    IF lo < hi
      THEN LET mid == (lo + hi) \div 2
           IN  IF x < a[mid + 1][1] THEN bisect(a, x, lo, mid)
                                    ELSE bisect(a, x, mid + 1, hi)
      ELSE lo

bisect_right(a, x) == bisect(a, x, 0, Len(a))

\* list.insert(lo, e)
insert(a, lo, e) == SubSeq(a, 1, lo) \o <<e>> \o SubSeq(a, lo + 1, Len(a))

\* An add that appends, whatever the position.
Timeline_add_last(ev, p, c) == Append(ev, <<p, c>>)

\* BaseTimeline.add: bisect.insort
Timeline_add(ev, p, c) == insert(ev, bisect_right(ev, p), <<p, c>>)

\* BPMTimeline.add: append
BPMTimeline_add(ev, p, c) == Append(ev, <<p, c>>)

\* The index of the first event equal to e, 0 if there is none.
index(ev, e) ==
    IF \E i \in 1..Len(ev) : ev[i] = e
      THEN CHOOSE i \in 1..Len(ev) : ev[i] = e /\ \A j \in 1..(i - 1) : ev[j] # e
      ELSE 0

\* A remove that takes out every matching event.
remove_all(ev, p, c) == SelectSeq(ev, LAMBDA e : e # <<p, c>>)

\* list.remove((position, clip)) where there is a match
list_remove(ev, p, c) ==
    SubSeq(ev, 1, index(ev, <<p, c>>) - 1)
        \o SubSeq(ev, index(ev, <<p, c>>) + 1, Len(ev))

RECURSIVE max_end(_, _, _)

\* The for loop of Timeline.duration from event i on; m is max_end.
max_end(ev, i, m) ==
    IF i > Len(ev)
      THEN m
      ELSE LET clip_dur == duration(ev[i][2])
           IN  IF clip_dur = <<>>
                 THEN <<>>
                 ELSE LET end == ev[i][1] + clip_dur[1]
                      IN  max_end(ev, i + 1,
                                  IF m = <<>> \/ end > m[1] THEN <<end>> ELSE m)

\* A duration whose max_end starts at 0.0.
Timeline_duration_from_zero(ev) == IF ev = <<>> THEN <<0>> ELSE max_end(ev, 1, <<0>>)

\* Timeline.duration
Timeline_duration(ev) == IF ev = <<>> THEN <<0>> ELSE max_end(ev, 1, <<>>)

\* ----------------------------------------------------------- the ScaledClip
Min(a, b) == IF a <= b THEN a ELSE b

Max(a, b) == IF a >= b THEN a ELSE b

\* An envelope without the final clamp to [0, 1].
fade_envelope_unclamped(t, dur, fade_in, fade_out) ==
    IF dur = <<>> \/ dur[1] <= 0
      THEN One
      ELSE LET f1 == IF fade_in > 0 /\ t < fade_in
                       THEN Min(One, FDiv(t, fade_in)) ELSE One
           IN  IF fade_out > 0 /\ t > dur[1] - fade_out
                 THEN Min(f1, FDiv(dur[1] - t, fade_out)) ELSE f1

\* _fade_envelope(t, duration, fade_in, fade_out); dur is <<>> for None
fade_envelope(t, dur, fade_in, fade_out) ==
    IF dur = <<>> \/ dur[1] <= 0
      THEN One
      ELSE LET f1 == IF fade_in > 0 /\ t < fade_in
                       THEN Min(One, FDiv(t, fade_in)) ELSE One
               f2 == IF fade_out > 0 /\ t > dur[1] - fade_out
                       THEN Min(f1, FDiv(dur[1] - t, fade_out)) ELSE f1
           IN  Max(0, Min(One, f2))

\* A ScaledClip that always reports its inner clip's duration.
ScaledClip_duration_inner(sc) == duration(sc.inner)

\* ScaledClip.duration
ScaledClip_duration(sc) ==
    IF sc.duration_override # <<>> THEN sc.duration_override ELSE duration(sc.inner)

\* amount * _fade_envelope(t, self.duration, self.fade_in, self.fade_out)
factor_at(sc, t) ==
    FMul(sc.amount, fade_envelope(t, ScaledClip_duration(sc), sc.fade_in, sc.fade_out))

\* scale_fn(result, factor): every delta is marked as scaled by the factor.
scale_fn(result, factor) ==
    [tg \in DOMAIN result |-> <<"scaled", result[tg], factor>>]

\* What render returns from the inner result and the factor.
scaled_value(sc, result, factor) ==
    IF factor >= One THEN result
    ELSE IF factor <= 0 THEN <<>>
    ELSE IF sc.scale_fn THEN scale_fn(result, factor)
    ELSE result

\* A render that does not call the inner clip when the factor is not positive.
ScaledClip_render_lazy(sc, t) ==
    IF factor_at(sc, t) <= 0
      THEN [calls |-> 0, value |-> <<>>]
      ELSE [calls |-> 1,
            value |-> scaled_value(sc, render(sc.inner, t), factor_at(sc, t))]

\* ScaledClip.render(t): the value returned, and how many times it called
\* inner.render (its first statement, once).
ScaledClip_render(sc, t) ==
    [calls |-> 1,
     value |-> scaled_value(sc, render(sc.inner, t), factor_at(sc, t))]

\* clip.duration of any clip
duration(c) ==
    IF c = "nest" THEN Timeline_duration(InnerEvents)
    ELSE IF c = "scaled" THEN ScaledClip_duration(scaled)
    ELSE LeafDuration(c)

RECURSIVE bpm_max_end(_, _, _)

\* The for loop of BPMTimeline.duration.
bpm_max_end(ev, i, m) ==
    IF i > Len(ev)
      THEN m
      ELSE LET clip_dur == duration(ev[i][2])
           IN  IF clip_dur = <<>>
                 THEN <<>>
                 ELSE LET end_time == time(ev[i][1] + clip_dur[1])
                      IN  bpm_max_end(ev, i + 1,
                                      IF m = <<>> \/ end_time > m[1]
                                        THEN <<end_time>> ELSE m)

\* BPMTimeline.duration
BPMTimeline_duration(ev) == IF ev = <<>> THEN <<0>> ELSE bpm_max_end(ev, 1, <<>>)

\* compose_last, compose_first
compose(fn, deltas) == IF fn = "last" THEN deltas[Len(deltas)] ELSE deltas[1]

RECURSIVE deltas_for(_, _)

\* target_deltas[target] of _compose_results
deltas_for(results, tg) ==
    IF results = <<>>
      THEN <<>>
      ELSE (IF tg \in DOMAIN Head(results) THEN <<Head(results)[tg]>> ELSE <<>>)
               \o deltas_for(Tail(results), tg)

\* BaseTimeline._compose_results
compose_results(results, fn) ==
    [tg \in UNION {DOMAIN results[i] : i \in 1..Len(results)} |->
        compose(fn, deltas_for(results, tg))]

Reverse(s) == [i \in 1..Len(s) |-> s[Len(s) + 1 - i]]

\* A window that is open at its end.
Past_open(c, local_t) == duration(c) # <<>> /\ local_t >= duration(c)[1]

\* c.duration is not None and local_t > c.duration
Past(c, local_t) == duration(c) # <<>> /\ local_t > duration(c)[1]

RECURSIVE scan(_, _, _)

\* The for loop of _render_at from index i (counted from 0) down to 0.
scan(ev, position, i) ==
    IF i < 0
      THEN <<>>
      ELSE (IF Past(ev[i + 1][2], position - ev[i + 1][1])
              THEN <<>>
              ELSE << <<position - ev[i + 1][1], ev[i + 1][2]>> >>)
               \o scan(ev, position, i - 1)

\* The active list of _render_at: <<local_t, clip>> in the order of events.
active_at(ev, position) == Reverse(scan(ev, position, bisect_right(ev, position) - 1))

\* The results list: each active clip's render(local_t).
results_of(active) == [i \in 1..Len(active) |-> render(active[i][2], active[i][1])]

\* The results of the clips' renders, composed; <<>> is the empty dict.
rendered(active, fn) ==
    IF active = <<>> THEN <<>> ELSE compose_results(results_of(active), fn)

\* BaseTimeline._render_at
render_at(ev, fn, position) == rendered(active_at(ev, position), fn)

\* clip.render(t) of any clip
render(c, t) ==
    IF c = "nest" THEN render_at(InnerEvents, "last", t)
    ELSE IF c = "scaled" THEN ScaledClip_render(scaled, t).value
    ELSE LeafRender(c, t)

\* Timeline.render(t)
Timeline_render(t) == render_at(events, compose_fn, t)

\* The active list of BPMTimeline.render
bpm_active(ev, current_beat) ==
    SelectSeq([i \in 1..Len(ev) |-> <<current_beat - ev[i][1], ev[i][2]>>],
              LAMBDA a : ~(a[1] < 0 \/ Past(a[2], a[1])))

\* BPMTimeline.render(t), resolved
BPMTimeline_render(t) == rendered(bpm_active(bevents, beat(t)), compose_fn)

\* The tempo maps of the BPMTimeline: the default one, and one with a tempo
\* change at beat 1.
TimelineMaps ==
    { << <<0, 120 * Scale>> >>,
      << <<0, 120 * Scale>>, <<One, 60 * Scale>> >> }

TimelineInit ==
    /\ clip_duration = 0
    /\ Fresh
    /\ now = 0
    /\ cycles = 0
    /\ selfstop = NoThread
    /\ Unnudged
    /\ compose_fn \in {"last", "first"}
    /\ events = <<>>
    /\ bevents = <<>>
    /\ added = <<>>
    /\ outcome = ""
    /\ query = <<>>
    /\ changes \in TimelineMaps
    /\ conv = <<>>
    /\ Unscaled
    /\ Unloaded
    /\ Unasked

\* What the timelines' methods leave alone.
untimed == <<shared, now, locals, call, ghost, cycles, selfstop, nudge_vars,
             compose_fn, changes, conv, scaled_vars, serde_vars, async_vars>>

\* add(position, clip) on the Timeline and on the BPMTimeline
add(p, c) ==
    /\ Len(events) < MaxEvents
    /\ events' = Timeline_add(events, p, c)
    /\ bevents' = BPMTimeline_add(bevents, p, c)
    /\ added' = Append(added, <<p, c>>)
    /\ outcome' = ""
    /\ query' = <<>>
    /\ UNCHANGED untimed

\* self.events.remove((position, clip)); ValueError when nothing matches
removed(ev, p, c) == IF index(ev, <<p, c>>) = 0 THEN ev ELSE list_remove(ev, p, c)

\* remove(position, clip) on the Timeline and on the BPMTimeline
remove(p, c) ==
    /\ events' = removed(events, p, c)
    /\ bevents' = removed(bevents, p, c)
    /\ added' = removed(added, p, c)
    /\ outcome' = IF index(events, <<p, c>>) = 0 \/ index(bevents, <<p, c>>) = 0
                     THEN "ValueError" ELSE "removed"
    /\ query' = <<>>
    /\ UNCHANGED untimed

\* clear() on the Timeline and on the BPMTimeline
clear ==
    /\ events' = <<>>
    /\ bevents' = <<>>
    /\ added' = <<>>
    /\ outcome' = ""
    /\ query' = <<>>
    /\ UNCHANGED untimed

\* render(t) on the Timeline and on the BPMTimeline
render_call(t) ==
    /\ query' = <<t>>
    /\ outcome' = ""
    /\ UNCHANGED <<events, bevents, added>>
    /\ UNCHANGED untimed

TimelineNext ==
    \/ \E p \in Positions, c \in TClips : add(p, c)
    \/ \E p \in Positions, c \in TClips : remove(p, c)
    \/ clear
    \/ \E t \in Times : render_call(t)

TimelineSpec == TimelineInit /\ [][TimelineNext]_vars

\* ------------------------------------------- a ScaledClip and its parent
\* The inner clips: the leaf clips of duration 0.5, 2 and None.
Inners == {"a", "b", "n"}

\* fade_in and fade_out: none, or one unit.
Fades == {0, One}

Amounts == {-Half, 0, Half, One, 3 * Half}

\* duration_override: None, 0, 1 or 3.
Overrides == {<<>>, <<0>>, <<One>>, <<3 * One>>}

ScaledClips ==
    [inner : Inners, fade_in : Fades, fade_out : Fades, amount : Amounts,
     scale_fn : BOOLEAN, duration_override : Overrides]

\* A Runner and a tempo map that are never used.
Still ==
    /\ clip_duration = 0
    /\ Fresh
    /\ now = 0
    /\ cycles = 0
    /\ selfstop = NoThread
    /\ Unnudged

runner_vars == <<shared, now, locals, call, ghost, cycles, selfstop, nudge_vars>>

\* ScaledClip(inner, fade_in=, fade_out=, amount=, scale_fn=,
\* duration_override=) and an empty parent Timeline.
ScaledInit ==
    /\ Still
    /\ Untimed
    /\ scaled \in ScaledClips
    /\ sresult = <<>>
    /\ Unloaded
    /\ Unasked

unscaled == <<runner_vars, compose_fn, bevents, added, outcome, changes, conv,
              scaled, serde_vars, async_vars>>

\* parent.add(p, scaled) on the empty parent Timeline
scaled_add(p) ==
    /\ events = <<>>
    /\ events' = Timeline_add(events, p, "scaled")
    /\ query' = <<>>
    /\ UNCHANGED sresult
    /\ UNCHANGED unscaled

\* parent.render(t); the last direct render is forgotten
parent_render(t) ==
    /\ events # <<>>
    /\ query' = <<t>>
    /\ sresult' = <<>>
    /\ UNCHANGED events
    /\ UNCHANGED unscaled

\* scaled.render(t), called directly; the parent's last render is forgotten
scaled_render(t) ==
    /\ sresult' = <<[t |-> t,
                     calls |-> ScaledClip_render(scaled, t).calls,
                     value |-> ScaledClip_render(scaled, t).value]>>
    /\ query' = <<>>
    /\ UNCHANGED events
    /\ UNCHANGED unscaled

ScaledNext ==
    \/ \E p \in Positions : scaled_add(p)
    \/ \E t \in Times : parent_render(t)
    \/ \E t \in Times : scaled_render(t)

ScaledSpec == ScaledInit /\ [][ScaledNext]_vars

\* --------------------------------------------------- deserialize_timeline
\* The registry: the clip type "ok", whose factory returns a clip, and the
\* clip type "broken", whose factory raises TypeError; "unknown" is not
\* registered.  One compose function is registered.
Factories == {"ok", "broken"}

Composes == {"sum"}

\* The classes of the exceptions raised here; all derive from Exception.
IsException(exc) == exc \in {"KeyError", "TypeError", "OSError"}

\* A handler for KeyError alone.
Caught_KeyError(exc) == exc = "KeyError"

\* except KeyError ... except Exception ...
Caught(exc) == exc = "KeyError" \/ IsException(exc)

\* An event of a document: a clip of a type, or a reference to a timeline.
DocEvent(p, type, name) == [position |-> p, clip |-> type, timeline |-> name]

\* The sub-timeline "sub": a clip, an event of an unregistered type, a clip.
SubDoc ==
    [compose_fn |-> "",
     events |-> <<DocEvent(0, "ok", ""), DocEvent(0, "unknown", ""),
                  DocEvent(One, "ok", "")>>]

\* The sub-timeline "bad": its compose_fn is not registered.
BadDoc == [compose_fn |-> "nope", events |-> <<DocEvent(0, "ok", "")>>]

\* load_fn(name): "gone" raises KeyError, "lost" raises OSError.
load(name) ==
    CASE name = "sub" -> [raised |-> "", data |-> SubDoc]
      [] name = "bad" -> [raised |-> "", data |-> BadDoc]
      [] name = "gone" -> [raised |-> "KeyError", data |-> <<>>]
      [] OTHER -> [raised |-> "OSError", data |-> <<>>]

\* registry.create(name, params)
create(name) ==
    IF name \notin Factories THEN [raised |-> "KeyError"]
    ELSE IF name = "broken" THEN [raised |-> "TypeError"]
    ELSE [raised |-> ""]

\* MetadataClip(clip_obj, clip_type=...) and
\* MetadataClip(sub_timeline, timeline_name=...)
MetadataClip(type, name, sub) == [clip_type |-> type, timeline_name |-> name, events |-> sub]

\* The event is skipped.
Skipped == [escapes |-> "", wrapped |-> <<>>]

\* An exception leaves a try block: skipped if a handler takes it, else it
\* leaves deserialize_timeline.
Handled(exc) == IF Caught(exc) THEN Skipped ELSE [escapes |-> exc, wrapped |-> <<>>]

RECURSIVE deserialize_timeline(_, _)

\* The body of the for loop for one event: what it adds, what escapes it.
one_event(event, load_fn) ==
    IF event.timeline # ""
      THEN IF ~load_fn
             THEN Skipped
             ELSE IF load(event.timeline).raised # ""
               THEN Handled(load(event.timeline).raised)
               ELSE LET sub == deserialize_timeline(load(event.timeline).data, load_fn)
                    IN  IF sub.raised # ""
                          THEN Handled(sub.raised)
                          ELSE [escapes |-> "",
                                wrapped |-> <<MetadataClip("", event.timeline, sub.events)>>]
      ELSE IF event.clip = ""
        THEN Skipped
        ELSE IF create(event.clip).raised # ""
          THEN Handled(create(event.clip).raised)
          ELSE [escapes |-> "", wrapped |-> <<MetadataClip(event.clip, "", <<>>)>>]

RECURSIVE events_loop(_, _, _, _)

\* for event in data.get("events", []), from event i on; tl is
\* timeline.events.
events_loop(evs, i, tl, load_fn) ==
    IF i > Len(evs)
      THEN [raised |-> "", events |-> tl]
      ELSE LET r == one_event(evs[i], load_fn)
           IN  IF r.escapes # ""
                 THEN [raised |-> r.escapes, events |-> tl]
                 ELSE events_loop(evs, i + 1,
                                  IF r.wrapped = <<>>
                                    THEN tl
                                    ELSE Timeline_add(tl, evs[i].position, r.wrapped[1]),
                                  load_fn)

\* deserialize_timeline(data, registry, load_fn) for a document of type
\* Timeline: what it raises, or the events of the Timeline it returns.
deserialize_timeline(data, load_fn) ==
    IF data.compose_fn # "" /\ data.compose_fn \notin Composes
      THEN [raised |-> "KeyError", events |-> <<>>]
      ELSE events_loop(data.events, 1, <<>>, load_fn)

\* Events in a document.
MaxDocEvents == 3

\* The events of the documents: at position 0 or 1, a clip of each type or
\* a reference to each timeline.
DocEvents ==
    {DocEvent(p, type, "") : p \in {0, One}, type \in {"ok", "unknown", "broken"}}
      \cup {DocEvent(p, "", name) : p \in {0, One}, name \in {"sub", "bad", "gone", "lost"}}

Documents ==
    [compose_fn : {"", "sum"},
     events : UNION {[1..n -> DocEvents] : n \in 0..MaxDocEvents}]

SerdeInit ==
    /\ Still
    /\ Untimed
    /\ Unscaled
    /\ doc \in [data : Documents, load_fn : BOOLEAN]
    /\ loaded = <<>>
    /\ Unasked

\* deserialize_timeline(data, registry, load_fn=load_fn)
deserialize_call ==
    /\ loaded = <<>>
    /\ loaded' = <<deserialize_timeline(doc.data, doc.load_fn)>>
    /\ UNCHANGED <<runner_vars, timed, scaled_vars, doc, async_vars>>

SerdeNext == deserialize_call

SerdeSpec == SerdeInit /\ [][SerdeNext]_vars

\* ------------------------------- one render call with asynchronous children
\* Active children of the render call.
MaxKids == 3

\* A child's render is a plain function or an async one.
KidKinds == {"sync", "async"}

\* The child whose render the call is at.
at == Len(got) + 1

\* The children after the first asynchronous one.
remaining == {i \in 1..Len(kids) : i > at}

untouched == <<runner_vars, timed, scaled_vars, serde_vars>>

\* timeline.render(t, ctx) is called with the children kids active.
AsyncInit ==
    /\ Still
    /\ Untimed
    /\ Unscaled
    /\ Unloaded
    /\ kids \in UNION {[1..n -> KidKinds] : n \in 1..MaxKids}
    /\ kst = [i \in DOMAIN kids |-> "new"]
    /\ rpc = "sync"
    /\ got = <<>>

\* The sync fast path of _render_at, one child per step: result =
\* c.render(lt, ctx); a dict is appended to results, an awaitable (the
\* coroutine, not yet running) ends the path with _render_async(...).
sync_path ==
    /\ rpc = "sync"
    /\ IF at > Len(kids)
         THEN rpc' = "composed" /\ UNCHANGED <<kst, got>>
         ELSE IF kids[at] = "sync"
           THEN /\ kst' = [kst EXCEPT ![at] = "done"]
                /\ got' = Append(got, at)
                /\ UNCHANGED rpc
           ELSE /\ kst' = [kst EXCEPT ![at] = "created"]
                /\ rpc' = "await"
                /\ UNCHANGED got
    /\ UNCHANGED <<kids, untouched>>

\* A coroutine or task that is awaited or scheduled starts to run: a plain
\* render returns within the step, an async one runs on.
child_start(i) ==
    /\ kst[i] = "created"
    /\ kst' = [kst EXCEPT ![i] = IF kids[i] = "sync" THEN "done" ELSE "running"]
    /\ UNCHANGED <<kids, rpc, got, untouched>>

\* An async render finishes.
child_finish(i) ==
    /\ kst[i] = "running"
    /\ kst' = [kst EXCEPT ![i] = "done"]
    /\ UNCHANGED <<kids, rpc, got, untouched>>

\* _render_async after "await pending_awaitable": the result is appended;
\* asyncio.gather then makes a task of _resolve_render for every remaining
\* child, or, with none left, the results are composed.
after_first ==
    /\ rpc = "await"
    /\ kst[at] = "done"
    /\ got' = Append(got, at)
    /\ IF remaining = {}
         THEN rpc' = "composed" /\ UNCHANGED kst
         ELSE /\ rpc' = "gather"
              /\ kst' = [i \in DOMAIN kst |-> IF i \in remaining THEN "created" ELSE kst[i]]
    /\ UNCHANGED <<kids, untouched>>

\* "await asyncio.gather(...)" returns the results in the order of the
\* children, partial_results.extend(remaining), and the results are composed.
after_gather ==
    /\ rpc = "gather"
    /\ \A i \in DOMAIN kids : i >= at => kst[i] = "done"
    /\ got' = got \o [j \in 1..(Len(kids) - Len(got)) |-> Len(got) + j]
    /\ rpc' = "composed"
    /\ UNCHANGED <<kids, kst, untouched>>

AsyncNext ==
    \/ sync_path
    \/ \E i \in 1..MaxKids : i \in DOMAIN kids /\ child_start(i)
    \/ \E i \in 1..MaxKids : i \in DOMAIN kids /\ child_finish(i)
    \/ after_first
    \/ after_gather

AsyncSpec == AsyncInit /\ [][AsyncNext]_vars

\* ------------------------------------------------- a TempoMap on its own
\* TempoMap(bpm), then set_tempo calls and conversions.
Bpms == {60 * Scale, 90 * Scale, 120 * Scale}

\* The beats handed to set_tempo: before 0, 0, and two later ones.
Beats == {-One, 0, One, 2 * One}

\* Conversions are asked for every quarter from -MaxX to MaxX units.
MaxX == 4

Xs == {k * (Scale \div 4) : k \in (-4 * MaxX)..(4 * MaxX)}

TempoInit ==
    /\ clip_duration = 0
    /\ Fresh
    /\ now = 0
    /\ cycles = 0
    /\ selfstop = NoThread
    /\ Unnudged
    /\ compose_fn = "last"
    /\ events = <<>>
    /\ bevents = <<>>
    /\ added = <<>>
    /\ outcome = ""
    /\ query = <<>>
    /\ \E bpm \in Bpms : changes = << <<0, bpm>> >>
    /\ conv = <<>>
    /\ Unscaled
    /\ Unloaded
    /\ Unasked

\* What the tempo map's methods leave alone.
untempo == <<shared, now, locals, call, ghost, cycles, selfstop, nudge_vars,
             compose_fn, events, bevents, added, outcome, query,
             scaled_vars, serde_vars, async_vars>>

\* tempo_map.set_tempo(beat, bpm)
set_tempo_call(b, bpm) ==
    /\ changes' = set_tempo(changes, b, bpm)
    /\ conv' = <<>>
    /\ UNCHANGED untempo

\* tempo_map.time(x) and tempo_map.beat(x) are asked for
convert(x) ==
    /\ conv' = <<x>>
    /\ UNCHANGED changes
    /\ UNCHANGED untempo

TempoNext ==
    \/ \E b \in Beats, bpm \in Bpms : set_tempo_call(b, bpm)
    \/ \E x \in Xs : convert(x)

TempoSpec == TempoInit /\ [][TempoNext]_vars

\* -------------------------------------------------------------- properties
\* A frame of loop t is in progress: rendering, failing, or inside output_fn.
ExecutingFrame(t) == pc[t] \in {"render", "except", "outfn"}

\* No loop thread is left.
NoLoop == \A t \in Threads : pc[t] = "dead"

\* No caller is inside a control method.
NoCall == \A c \in Callers : call[c] = Idle

\* Loop t passes its while header and sets out to render a frame.
Ticks(t) == pc[t] = "while" /\ pc'[t] = "render"

\* Loop t hands a frame to output_fn.
Delivers(t) == pc[t] = "render" /\ pc'[t] = "outfn"

\* Loop t leaves through the completion test after its frame.
NaturalExit(t) == pc[t] \in {"outfn", "except"} /\ pc'[t] = "finally"

\* C1: at most one playback loop is executing frames at any time, also when
\* control methods are called from inside output_fn.
C1_AtMostOneLoop == Cardinality({t \in Threads : ExecutingFrame(t)}) <= 1

\* C2: Runner.state changes only along the edges stopped -> playing,
\* playing -> paused, paused -> playing, playing -> stopped, paused -> stopped
\* (and any -> playing by play()); stopped -> paused never happens.
Edges ==
    {<<"stopped", "playing">>, <<"playing", "paused">>, <<"paused", "playing">>,
     <<"playing", "stopped">>, <<"paused", "stopped">>}

C2_StateEdges == [][state' # state => <<state, state'>> \in Edges]_vars

\* C3: the done signal is never left clear after the cycle has ended: once an
\* external stop() has returned, or the Runner is stopped with no call in
\* progress, and no loop thread is left, done is set.
C3_DoneSetAfterCycle ==
    (afterStop = "yes" \/ (state = "stopped" /\ NoCall)) /\ NoLoop => done_event

\* C4: pause() with no playback loop active, or on a paused Runner, changes
\* nothing: state, is_paused, elapsed and the done signal stay as they are.
C4_PauseIdleNoop ==
    [][\A c \in Callers :
         pause(c) /\ (NoLoop \/ paused) =>
           state' = state /\ UNCHANGED <<paused, elapsed, done_event>>]_vars

\* C5: from the return of an external pause() until play() or resume() is
\* called, no loop renders or delivers a frame and elapsed does not change;
\* pause() keeps the clip reference.
C5_NoFrameWhilePaused ==
    [][/\ afterPause = "yes" /\ afterPause' = "yes" =>
            /\ elapsed' = elapsed
            /\ \A t \in Threads : ~Ticks(t) /\ ~Delivers(t)
       /\ \A c \in Callers : pause(c) => clip' = clip]_vars

\* resume() on a Runner that is not paused starts no loop, changes no field.
ResumeNoop ==
    \A c \in Callers :
       resume(c) /\ ~paused =>
         /\ UNCHANGED shared
         /\ \A t \in Threads : pc[t] = "dead" => pc'[t] = "dead"

\* C6, as stated: every frame of a loop that resume() started has a show time
\* at or after the frozen position the resume started from; resume() on a
\* Runner that is not paused is a no-op.
C6_ResumeFromFrozen ==
    [][/\ \A t \in Threads :
            Ticks(t) /\ origin[t] # <<>> => show_time'[t][1] >= origin[t][1]
       /\ ResumeNoop]_vars

\* The frozen position, or the end of the clip the frame renders if that
\* comes first.
FrozenOrEnd(t, k) ==
    IF Finite(k) /\ Dur(k) < origin[t][1] THEN Dur(k) ELSE origin[t][1]

\* C6, amended: every frame of a loop that resume() started has a show time
\* at or after the frozen position, or at the duration of the clip it renders
\* when that clip (swapped in meanwhile) ends before the frozen position;
\* resume() on a Runner that is not paused is a no-op.
C6_ResumeFromFrozenOrEnd ==
    [][/\ \A t \in Threads :
            Ticks(t) /\ origin[t] # <<>> =>
              show_time'[t][1] >= FrozenOrEnd(t, lclip'[t])
       /\ ResumeNoop]_vars

\* A loop resumed from a position past 0 is rendering a frame.
C6_Witness ==
    \E t \in Threads :
       /\ pc[t] = "render"
       /\ origin[t] # <<>>
       /\ origin[t][1] > 0
       /\ show_time[t][1] >= origin[t][1]

\* C7: once an external stop() has returned, state is stopped, is_paused is
\* false, done is set and no loop is running.
C7_AfterStop ==
    afterStop = "yes" => state = "stopped" /\ ~paused /\ done_event /\ NoLoop

\* C8: every tick renders the clip that is current when the tick begins, so
\* a swap takes effect on the next tick; and swap() sets the clip and leaves
\* the loop, the state, is_paused, elapsed and the done signal alone.
C8_SwapNextTick ==
    [][/\ \A t \in Threads : Ticks(t) => lclip'[t] = clip
       /\ \A c \in Callers, k \in Clips :
            swap(c, k) =>
              /\ clip' = k
              /\ state' = state
              /\ UNCHANGED <<thread, stop_event, done_event, paused, elapsed>>
              /\ \A t \in Threads : t # c => pc'[t] = pc[t]]_vars

\* With a finite clip of duration 0, which ends a loop on its first frame, and
\* no call from inside output_fn: a loop past its first frame renders the
\* finite clip, so the clip was swapped in while the loop ran.
C8_Witness ==
    /\ reentered = 0
    /\ clip_duration = 0
    /\ \E t \in Threads :
          pc[t] = "render" /\ lclip[t] = "fin" /\ frame_count[t] >= 1

C10_ExceptionKeepsLoop ==
    [][\A t \in Threads :
         /\ pc[t] = "except" /\ pc'[t] # "except" =>
              /\ pc'[t] = IF Finishing(t) THEN "finally" ELSE "wait"
              /\ ~Finishing(t) => frame_count'[t] = frame_count[t] + 1
         /\ reentered = 0 /\ pc[t] = "finally" /\ show_time[t] # <<>>
               /\ Finishing(t) => pc'[t] # "dead"]_vars

\* The only frame of a finite clip has failed.
C10_Witness ==
    \E t \in Threads :
       /\ pc[t] = "except"
       /\ frame_count[t] = 0
       /\ Finishing(t)
       /\ ~done_event

\* C11: a finite clip given to play() eventually completes and sets the done
\* signal that wait() blocks on, with no stop() and every pause() followed by
\* a resume(), after up to MaxCycles pause/resume cycles and also for a
\* negative start_at.
C11_Completes == ~done_event ~> done_event

\* A loop that resume() started from a negative position (so play() had a
\* negative start_at), after MaxCycles pauses, has played the clip to its end
\* and is about to set the done signal.
C11_Witness ==
    \E t \in Threads :
       /\ pc[t] = "finset"
       /\ origin[t] # <<>>
       /\ origin[t][1] < 0
       /\ cycles = MaxCycles
       /\ clip_finished(t)
       /\ ~done_event

InWindow(ev, t) ==
    SelectSeq([i \in 1..Len(ev) |-> <<t - ev[i][1], ev[i][2]>>],
              LAMBDA a : a[1] >= 0 /\ (duration(a[2]) = <<>> \/ a[1] <= duration(a[2])[1]))

\* C14: Timeline.render(t) renders an event at local time t - P exactly when
\* 0 <= t - P and the clip's duration is None or t - P <= D, for every event
\* and every t; no other event contributes, and the result is the empty map
\* when no event is active.
C14_ActivationWindow ==
    query # <<>> =>
      /\ active_at(events, query[1]) = InWindow(events, query[1])
      /\ Timeline_render(query[1]) = rendered(InWindow(events, query[1]), compose_fn)
      /\ InWindow(events, query[1]) = <<>> <=> Timeline_render(query[1]) = <<>>

\* A render at the last instant of a finite clip placed at a negative
\* position, beside an event that has not begun and one that is over.
C14_Witness ==
    /\ query = <<-Half>>
    /\ Len(events) = MaxEvents
    /\ \E i \in 1..Len(events) : events[i] = <<-One, "a">>
    /\ \E i \in 1..Len(events) : events[i][1] > 0
    /\ Len(active_at(events, -Half)) = 1
    /\ Timeline_render(-Half) = [tg \in {"x"} |-> <<"a", Half>>]

\* C15: for every target, compose_fn receives the deltas of the active clips
\* in the order in which the clips were added to the Timeline, not sorted by
\* position: compose_last yields the most recently added active clip's delta,
\* compose_first the earliest added one's.
C15_InsertionOrder ==
    query # <<>> =>
      \A tg \in {"x", "y"} :
         deltas_for(results_of(active_at(events, query[1])), tg)
            = deltas_for(results_of(InWindow(added, query[1])), tg)

\* The ends position + clip.duration of the events.
Ends(ev) == {ev[i][1] + duration(ev[i][2])[1] : i \in 1..Len(ev)}

\* C16: after any sequence of add, remove and clear, Timeline.duration is 0
\* with no events, None when any event's clip has duration None (a nested
\* timeline of duration None included), and otherwise the maximum of
\* position + clip.duration over the events, negative or not.
C16_Duration ==
    Timeline_duration(events) =
       IF events = <<>> THEN <<0>>
       ELSE IF \E i \in 1..Len(events) : duration(events[i][2]) = <<>> THEN <<>>
       ELSE <<CHOOSE e \in Ends(events) : \A f \in Ends(events) : f <= e>>

\* Several finite events, all over before time 0: the duration is negative.
C16_Witness ==
    /\ Len(events) >= 2
    /\ Timeline_duration(events) # <<>>
    /\ Timeline_duration(events)[1] < 0

\* ev without its element at index i.
Dropped(ev, i) == [k \in 1..(Len(ev) - 1) |-> IF k < i THEN ev[k] ELSE ev[k + 1]]

\* to is ev without the first element equal to e.
FirstGone(ev, e, to) ==
    \E i \in 1..Len(ev) :
       /\ ev[i] = e
       /\ \A j \in 1..(i - 1) : ev[j] # e
       /\ to = Dropped(ev, i)

Occurs(ev, e) == \E i \in 1..Len(ev) : ev[i] = e

\* C17: remove(position, clip) on a Timeline or a BPMTimeline removes exactly
\* one event equal to (position, clip), the first one, and leaves the other
\* events and their order as they are; when no event matches it raises and
\* the event list is unchanged.
C17_RemoveFirst ==
    [][outcome' # "" =>
         \A p \in Positions, c \in TClips :
            remove(p, c) =>
              /\ IF Occurs(events, <<p, c>>)
                   THEN FirstGone(events, <<p, c>>, events')
                   ELSE events' = events /\ outcome' = "ValueError"
              /\ IF Occurs(bevents, <<p, c>>)
                   THEN FirstGone(bevents, <<p, c>>, bevents')
                   ELSE bevents' = bevents /\ outcome' = "ValueError"]_vars

\* A remove has taken an event out of a full Timeline and BPMTimeline whose
\* events are in different orders.
C17_Witness ==
    /\ outcome = "removed"
    /\ Len(events) = MaxEvents - 1
    /\ bevents # events

\* C18: after any sequence of set_tempo calls the breakpoint list has its
\* first entry at beat 0 and is strictly increasing in beat (so has at most
\* one entry per beat); set_tempo(beat <= 0, bpm) replaces only the beat-0
\* entry, and set_tempo at an existing beat replaces only that entry.
C18_Breakpoints ==
    /\ [](/\ changes[1][1] = 0
          /\ \A i \in 1..(Len(changes) - 1) : changes[i][1] < changes[i + 1][1])
    /\ [][\A b \in Beats, bpm \in Bpms :
            set_tempo_call(b, bpm)
               /\ (b <= 0 \/ \E i \in 1..Len(changes) : changes[i][1] = b) =>
              /\ Len(changes') = Len(changes)
              /\ \A i \in 1..Len(changes) :
                    changes'[i] = IF changes[i][1] = (IF b <= 0 THEN 0 ELSE b)
                                    THEN <<changes[i][1], bpm>> ELSE changes[i]]_vars

\* Three breakpoints, the middle one set again after the last one was set.
C18_Witness ==
    /\ Len(changes) = 3
    /\ changes[1][2] # changes[2][2]
    /\ changes[2][2] # changes[3][2]
    /\ changes[3][2] = changes[1][2]

\* C19, as stated: beat(time(x)) = x and time(beat(x)) = x for every tempo
\* map and every x; for x <= 0 the conversion is the beat-0 tempo's.
C19_RoundTripExact ==
    conv # <<>> =>
      /\ beat(time(conv[1])) = conv[1]
      /\ time(beat(conv[1])) = conv[1]

Abs(x) == IF x < 0 THEN -x ELSE x

\* The rounding error allowed at x: two units in the last place, and twice
\* the format's relative precision.
Tol(x) == 2 + (2 * Abs(x)) \div Scale

\* C19, amended: beat(time(x)) and time(beat(x)) equal x up to the rounding
\* error of the float arithmetic, for every tempo map reachable by set_tempo
\* with positive bpm values and every x, negative values and values on a
\* breakpoint included; for x <= 0 both conversions are those of the beat-0
\* tempo alone, whatever later breakpoints exist.
C19_RoundTripClose ==
    conv # <<>> =>
      /\ Abs(beat(time(conv[1])) - conv[1]) <= Tol(conv[1])
      /\ Abs(time(beat(conv[1])) - conv[1]) <= Tol(conv[1])
      /\ conv[1] <= 0 =>
            /\ time(conv[1]) = time_of(<<changes[1]>>, conv[1])
            /\ beat(conv[1]) = beat_of(<<changes[1]>>, conv[1])

\* A conversion of a negative value on a map with two later breakpoints,
\* where rounding keeps the round trip from being exact.
C19_Witness ==
    /\ conv # <<>>
    /\ conv[1] < 0
    /\ Len(changes) = 3
    /\ beat(time(conv[1])) # conv[1]

\* tempo_map.time of a duration that may be None
TimeOfDuration(d) == IF d = <<>> THEN <<>> ELSE <<time(d[1])>>

\* C20: for the same sequence of add/remove/clear calls and the same
\* compose_fn, BPMTimeline.render(t) yields, once resolved, the same map as
\* Timeline.render(tempo_map.beat(t)), and BPMTimeline.duration is
\* tempo_map.time(Timeline.duration): 0 when empty, None when that is None.
C20_BPMTimelineRefines ==
    /\ query # <<>> => BPMTimeline_render(query[1]) = Timeline_render(beat(query[1]))
    /\ BPMTimeline_duration(bevents) = TimeOfDuration(Timeline_duration(events))

\* C25: no frame is delivered to output_fn once an external stop() has
\* returned, and a frame whose render was in progress when that stop() was
\* requested (the stop is still inside its join) is not delivered either.
C25_NoFrameAfterStop ==
    [][\A t \in Threads : Delivers(t) => afterStop = "no"]_vars

\* C26: whenever Runner.state is "paused" the done signal is clear, for every
\* interleaving of pause() with the loop, a pause() that arrives as the clip
\* is finishing or after it has finished included.
C26_PausedDoneClear == state = "paused" => ~done_event

\* C27: pause() and stop() called by a loop thread from inside its own frame
\* return without waiting in a join, and after such a call that loop passes
\* no further while header: it renders no further frame.
C27_SelfJoinNoop ==
    [][\A t \in Threads :
         /\ (pause(t) \/ stop(t)) /\ call[t] = Idle => call'[t] = Idle
         /\ selfstop = t => ~Ticks(t)]_vars

\* The events of ev at position p, in the order of ev.
At(ev, p) == SelectSeq(ev, LAMBDA e : e[1] = p)

\* C30: after any sequence of add, remove and clear calls the Timeline's
\* events are sorted by position in non-decreasing order, events of equal
\* position being in the order they were added; and the binary search of
\* render then finds every event whose window holds the render time.
C30_SortedStable ==
    /\ \A i \in 1..(Len(events) - 1) : events[i][1] <= events[i + 1][1]
    /\ \A p \in Positions : At(events, p) = At(added, p)
    /\ query # <<>> => active_at(events, query[1]) = InWindow(events, query[1])

\* A full Timeline: two different clips share a position, the
\* events were not added in the order of their positions, and a render finds
\* active events.
C30_Witness ==
    /\ Len(events) = MaxEvents
    /\ events # added
    /\ Len(added) = MaxEvents
    /\ \E i \in 1..(Len(events) - 1) :
          events[i][1] = events[i + 1][1] /\ events[i][2] # events[i + 1][2]
    /\ query # <<>>
    /\ active_at(events, query[1]) # <<>>

\* ------------------------------------------------------------ NestedBPMClip
\* The methods and properties a timeline class has.
Methods(cls) ==
    IF cls = "Timeline"
      THEN {"add", "remove", "clear", "_render_at", "_render_async",
            "_compose_results", "start", "duration", "render"}
      ELSE {"add", "remove", "clear", "start", "duration", "render"}

\* NestedBPMClip(inner).duration, inner.events being ev
NestedBPMClip_duration(ev) == IF ev = <<>> THEN <<0>> ELSE max_end(ev, 1, <<>>)

\* NestedBPMClip(inner).render(t): self.inner._render_at(t, ctx), which raises
\* AttributeError when the inner object has no such method.
NestedBPMClip_render(cls, ev, fn, t) ==
    IF "_render_at" \in Methods(cls)
      THEN [raised |-> FALSE, value |-> render_at(ev, fn, t)]
      ELSE [raised |-> TRUE, value |-> <<>>]

\* The largest end in beats, 0 with no event, None when a clip has no end.
MaxEndBeat(ev) ==
    IF ev = <<>> THEN <<0>>
    ELSE IF \E i \in 1..Len(ev) : duration(ev[i][2]) = <<>> THEN <<>>
    ELSE <<CHOOSE e \in Ends(ev) : \A f \in Ends(ev) : f <= e>>

\* C21: NestedBPMClip(inner), inner a BPMTimeline, renders at t taken as the
\* current beat, with no tempo conversion: the children of inner whose window
\* holds t, each at its local beat, composed; and its duration is the
\* largest end position of inner's events in beats.
C21_NestedBeatUnits ==
    /\ NestedBPMClip_duration(bevents) = MaxEndBeat(bevents)
    /\ query # <<>> =>
         /\ ~NestedBPMClip_render("BPMTimeline", bevents, compose_fn, query[1]).raised
         /\ NestedBPMClip_render("BPMTimeline", bevents, compose_fn, query[1]).value
               = rendered(InWindow(bevents, query[1]), compose_fn)

\* C22: ScaledClip.render(t), with factor = amount * envelope, returns the
\* inner result unchanged when factor >= 1, the empty map when factor <= 0,
\* scale_fn(inner result, factor) when 0 < factor < 1 and a scale_fn is set,
\* the unscaled inner result when 0 < factor < 1 and none is set; the
\* envelope is 1 when the duration is None or <= 0 and always lies in [0, 1].
C22_ScaledRender ==
    sresult # <<>> =>
      LET t == sresult[1].t
          dur == ScaledClip_duration(scaled)
          env == fade_envelope(t, dur, scaled.fade_in, scaled.fade_out)
          factor == FMul(scaled.amount, env)
          inner == render(scaled.inner, t)
      IN  /\ factor >= One => sresult[1].value = inner
          /\ factor <= 0 => sresult[1].value = <<>>
          /\ 0 < factor /\ factor < One /\ scaled.scale_fn =>
               sresult[1].value = scale_fn(inner, factor)
          /\ 0 < factor /\ factor < One /\ ~scaled.scale_fn =>
               sresult[1].value = inner
          /\ 0 <= env /\ env <= One
          /\ dur = <<>> \/ dur[1] <= 0 => env = One

\* A render halfway through a fade-in, at full amount and with a scale_fn:
\* the value is the inner result scaled by one half.
C22_Witness ==
    /\ sresult # <<>>
    /\ scaled.scale_fn
    /\ scaled.fade_in = One
    /\ scaled.amount = One
    /\ sresult[1].t = Half
    /\ factor_at(scaled, Half) = Half
    /\ sresult[1].value = scale_fn(render(scaled.inner, Half), Half)
    /\ sresult[1].value # render(scaled.inner, Half)

\* C23: a ScaledClip with duration_override D reports duration D whatever its
\* inner duration is, so the parent Timeline that holds it at position P
\* renders it exactly for P <= t <= P + D; without an override its duration
\* is the inner clip's, None included.
C23_DurationOverride ==
    /\ scaled.duration_override # <<>> =>
         /\ duration("scaled") = scaled.duration_override
         /\ query # <<>> /\ events # <<>> =>
              LET P == events[1][1]
                  t == query[1]
                  D == scaled.duration_override[1]
              IN  IF P <= t /\ t <= P + D
                    THEN active_at(events, t) = << <<t - P, "scaled">> >>
                    ELSE active_at(events, t) = <<>> /\ Timeline_render(t) = <<>>
    /\ scaled.duration_override = <<>> =>
         duration("scaled") = duration(scaled.inner)

\* The parent renders past the override, at a time the inner clip (longer, or
\* without an end) would still cover: nothing is rendered.
C23_Witness ==
    /\ scaled.duration_override = <<One>>
    /\ scaled.inner \in {"b", "n"}
    /\ events # <<>>
    /\ query # <<>>
    /\ query[1] - events[1][1] = One + Half
    /\ ~Past(scaled.inner, query[1] - events[1][1])
    /\ Timeline_render(query[1]) = <<>>

\* C29: ScaledClip.render calls the inner clip's render exactly once per
\* call for every value of factor, also for factor <= 0, where it returns
\* the empty map.
C29_InnerRenderedOnce ==
    sresult # <<>> =>
      /\ sresult[1].calls = 1
      /\ factor_at(scaled, sresult[1].t) <= 0 => sresult[1].value = <<>>

\* A render with a factor of 0 (at the start of a fade-in) has returned the
\* empty map after one call of the inner render.
C29_Witness ==
    /\ sresult # <<>>
    /\ scaled.fade_in = One
    /\ scaled.amount = One
    /\ sresult[1].t = 0
    /\ factor_at(scaled, 0) = 0
    /\ sresult[1].calls = 1
    /\ sresult[1].value = <<>>

\* The event can be loaded: a clip of a registered type whose factory
\* returns, or a reference to a timeline that load_fn returns and that
\* deserializes.
Loadable(event, load_fn) ==
    IF event.timeline # "" THEN load_fn /\ event.timeline = "sub" ELSE event.clip = "ok"

\* The events the Timeline is to hold, in the order of the document.
Remaining(evs, load_fn) ==
    LET kept == SelectSeq(evs, LAMBDA e : Loadable(e, load_fn))
        sub == SelectSeq(SubDoc.events, LAMBDA e : Loadable(e, load_fn))
    IN  [i \in 1..Len(kept) |->
           <<kept[i].position,
             IF kept[i].timeline # ""
               THEN MetadataClip("", kept[i].timeline,
                                 [j \in 1..Len(sub) |->
                                    <<sub[j].position, MetadataClip(sub[j].clip, "", <<>>)>>])
               ELSE MetadataClip(kept[i].clip, "", <<>>)>>]

\* How many times x occurs in the sequence.
Count(sq, x) == Cardinality({i \in 1..Len(sq) : sq[i] = x})

\* C24: deserialize_timeline raises nothing for a document with events whose
\* clip type is not registered, whose factory raises, or whose nested
\* timeline cannot be loaded (no load_fn, load_fn raises, the sub-document
\* fails): those events are skipped and the Timeline returned holds exactly
\* the remaining events of the document.
C24_FailingEventSkipped ==
    loaded # <<>> =>
      /\ loaded[1].raised = ""
      /\ Len(loaded[1].events) = Len(Remaining(doc.data.events, doc.load_fn))
      /\ \A i \in 1..Len(loaded[1].events) :
            Count(loaded[1].events, loaded[1].events[i])
              = Count(Remaining(doc.data.events, doc.load_fn), loaded[1].events[i])

\* A document of three events has been loaded: the second one's factory
\* raised, the first and the third are on the Timeline, one of them a nested
\* timeline that lost an event of its own.
C24_Witness ==
    /\ loaded # <<>>
    /\ Len(doc.data.events) = MaxDocEvents
    /\ doc.data.events[2].clip = "broken"
    /\ Len(loaded[1].events) = MaxDocEvents - 1
    /\ \E i \in 1..Len(loaded[1].events) :
          /\ loaded[1].events[i][2].timeline_name = "sub"
          /\ Len(loaded[1].events[i][2].events) = 2

\* The render call waits for a child to finish.
Waiting == rpc \in {"await", "gather"}

\* C28: when the render call has more than one active child with an
\* asynchronous render, the renders of all of them have been requested by
\* the time the call waits for any child to finish; the results are composed
\* only after every active child has resolved, and the results list holds
\* the children's results in the order of the synchronous path.
C28_FanOut ==
    /\ Waiting /\ Cardinality({i \in DOMAIN kids : kids[i] = "async"}) > 1 =>
         \A i \in DOMAIN kids : kids[i] = "async" => kst[i] # "new"
    /\ rpc = "composed" =>
         /\ \A i \in DOMAIN kids : kst[i] = "done"
         /\ got = [i \in 1..Len(kids) |-> i]
====
